---- MODULE Spec2Model ----
(***************************************************************************)
(* A model of changelog/__init__.py: the commit classifier (is_pr,         *)
(* is_release_merge, extract_pr, extract_changelog), the change resolver   *)
(* (fetch_changes) and the severity formatter (format_changes).            *)
(*                                                                         *)
(* Python str values are sequences of one-character strings, so that the   *)
(* regular expressions of the source are matched character by character.   *)
(* Python's None is the sequence None where a str is expected and the      *)
(* record NoPullRequest where a PullRequest is expected.                   *)
(***************************************************************************)
EXTENDS Naturals, Sequences, FiniteSets, TLC

VARIABLES
    pc,                    \* position of the run of generate_changelog
    previous_tag,          \* argument of fetch_changes (None when absent)
    current_tag,           \* argument of fetch_changes (None when absent)
    branch,                \* argument of fetch_changes
    ignore_release_merge,  \* argument of fetch_changes
    markdown,              \* argument of format_changes
    tag_url,               \* get_commit_for_tag: the URL requested next
    tag_requests,          \* get_commit_for_tag: requests of the running call
    previous_commit,       \* fetch_changes local
    current_commit,        \* fetch_changes local
    commits_between,       \* fetch_changes local: sequence of Commit
    walked,                \* number of commits the for loop has consumed
    lookups,               \* per walked commit, what the loop body resolved
    prs,                   \* fetch_changes local: sequence of PullRequest
    processed_pr_numbers,  \* fetch_changes local: set of numbers
    extended_prs,          \* fetch_changes local: sequence of ExtendedPullRequest
    result,                \* what fetch_changes returned
    lines,                 \* what format_changes returned
    error,                 \* the exception that ended the run, "" when none
    error_args,            \* what its raise statement formats into its message
    calls,                 \* the remote calls (requests.get) issued so far
    message,               \* classifier harness: the commit message / PR body
    outcome                \* classifier harness: what the classifier computed

vars == <<pc, previous_tag, current_tag, branch, ignore_release_merge, markdown,
          tag_url, tag_requests, previous_commit, current_commit, commits_between, walked,
          lookups, prs, processed_pr_numbers, extended_prs, result, lines,
          error, error_args, calls, message, outcome>>

(***************************************************************************)
(* Strings                                                                 *)
(***************************************************************************)
None == <<"None">>

NL == "\n"

Digits == {"0", "1", "2", "3", "4", "5", "6", "7", "8", "9"}

\* Python's \s for a str pattern, as far as a string of the model can hold
\* the character: space, \t, \n, \r, \f, and written as they are U+000B,
\* U+001C to U+001F, U+0085, U+00A0 and U+1680.  (The other characters of
\* \s, U+2000 to U+200A, U+2028, U+2029, U+202F, U+205F and U+3000, are not
\* accepted inside a string.)
Whitespace ==
    {" ", "\t", "\n", "\r", "\f",
     "", "", "", "", "", "", " ", " "}

\* s[at..] begins with p
StartsWith(s, p, at) ==
    /\ at >= 1
    /\ at + Len(p) - 1 <= Len(s)
    /\ SubSeq(s, at, at + Len(p) - 1) = p

\* p occurs in s
Contains(s, p) == \E i \in 1..(Len(s) + 1) : StartsWith(s, p, i)

\* index of the first "\n" at or after i, Len(s)+1 when there is none:
\* where a greedy .* that starts at i stops ("." matches no "\n")
LineEnd(s, i) ==
    LET nls == {j \in i..Len(s) : s[j] = NL}
    IN  IF nls = {} THEN Len(s) + 1
        ELSE CHOOSE j \in nls : \A k \in nls : j <= k

\* index of the last character of the maximal run of digits starting at i
\* (i-1 when s[i] is no digit): where a greedy [0-9]+ that starts at i stops
DigitsEnd(s, i) ==
    LET stops == {j \in i..(Len(s) + 1) : j = Len(s) + 1 \/ s[j] \notin Digits}
    IN  (CHOOSE j \in stops : \A k \in stops : j <= k) - 1

Max(S) == CHOOSE x \in S : \A y \in S : y <= x

Min(S) == CHOOSE x \in S : \A y \in S : x <= y

(***************************************************************************)
(* The regular expressions (changelog/__init__.py lines 26-38)             *)
(***************************************************************************)
\* "Merge pull request #"
MergeLit == <<"M", "e", "r", "g", "e", " ", "p", "u", "l", "l", " ", "r", "e", "q", "u", "e", "s", "t", " ", "#">>

\* " from "
FromLit == <<" ", "f", "r", "o", "m", " ">>

\* "/release/"
ReleaseLit == <<"/", "r", "e", "l", "e", "a", "s", "e", "/">>

\* " (#"
SquashOpenLit == <<" ", "(", "#">>

\* "CHANGELOG:"
ChangelogLit == <<"C", "H", "A", "N", "G", "E", "L", "O", "G", ":">>

NoMatch == [matched |-> FALSE]

\* "^" of a pattern compiled with re.MULTILINE, tried at index at
CaretMultiline(s, at) == at = 1 \/ s[at - 1] = NL

\* Caret as it would be were the templates compiled with re.MULTILINE
CaretOnAnyLine(s, at) == at = 1 \/ s[at - 1] = NL

\* "^" of a pattern compiled without flags, tried at index at: the start of
\* the string only
Caret(s, at) == at = 1

\* ^Merge pull request #([0-9]+) from .*\n\n(.*) tried at index at.
\* The match is determined: [0-9]+ is followed by a space, and ".*" stops at
\* the first "\n", which a second "\n" must follow.  groups = (number, title).
MERGE_PR_RE(s, at) ==
    LET a == at + Len(MergeLit)
        d == DigitsEnd(s, a)
        b == d + 1 + Len(FromLit)
        e == LineEnd(s, b)
        t == e + 2
    IN  IF /\ Caret(s, at)
           /\ StartsWith(s, MergeLit, at)
           /\ d >= a
           /\ StartsWith(s, FromLit, d + 1)
           /\ StartsWith(s, <<NL, NL>>, e)
        THEN [matched |-> TRUE,
              number  |-> SubSeq(s, a, d),
              source  |-> SubSeq(s, b, e - 1),
              title   |-> SubSeq(s, t, LineEnd(s, t) - 1)]
        ELSE NoMatch

\* ^Merge pull request #([0-9]+) from .*/release/.*\n\n(.*) tried at index at
MERGE_RELEASE_PR_RE(s, at) ==
    LET m == MERGE_PR_RE(s, at)
    IN  IF m.matched /\ Contains(m.source, ReleaseLit) THEN m ELSE NoMatch

\* ^(.*) \(#([0-9]+)\).* tried at index at.
\* The greedy (.*) keeps the longest stretch of the line that " (#", digits
\* and ")" follow.  groups = (title, number).
SQUASH_PR_RE(s, at) ==
    LET ends == {p \in (at - 1)..(LineEnd(s, at) - 1) :
                    /\ StartsWith(s, SquashOpenLit, p + 1)
                    /\ DigitsEnd(s, p + 4) >= p + 4
                    /\ StartsWith(s, <<")">>, DigitsEnd(s, p + 4) + 1)}
    IN  IF ~Caret(s, at) \/ ends = {} THEN NoMatch
        ELSE LET p == Max(ends)
             IN  [matched |-> TRUE,
                  title   |-> SubSeq(s, at, p),
                  number  |-> SubSeq(s, p + 4, DigitsEnd(s, p + 4))]

\* pattern.match(s) tries the pattern at the start of s only
MatchAt == 1

\* pattern.search(s) tries the pattern at each index of s, from the start on
SearchFrom(s) == 1..(Len(s) + 1)

\* ... and keeps the first index where it matches; 0 stands for no match
SearchAt(found) == IF found = {} THEN 0 ELSE Min(found)

\* ^CHANGELOG:\s?(.*) with re.MULTILINE, tried at index at: a line start
\* that "CHANGELOG:" follows; \s? takes one whitespace character when there
\* is one (a "\n" included); (.*) runs to the end of that line.
CHANGELOG_RE(s, at) ==
    LET r == at + Len(ChangelogLit)
        g == IF r <= Len(s) /\ s[r] \in Whitespace THEN r + 1 ELSE r
    IN  IF CaretMultiline(s, at) /\ StartsWith(s, ChangelogLit, at)
        THEN [matched |-> TRUE, changelog |-> SubSeq(s, g, LineEnd(s, g) - 1)]
        ELSE NoMatch

(***************************************************************************)
(* The commit classifier (lines 223-257)                                   *)
(***************************************************************************)
\* A str is any sequence but None.
extract_changelog(pr_body) ==
    IF pr_body = None THEN None
    ELSE LET at == SearchAt({i \in SearchFrom(pr_body) :
                                 CHANGELOG_RE(pr_body, i).matched})
             changelog_match == IF at = 0 THEN NoMatch
                                ELSE CHANGELOG_RE(pr_body, at)
         IN  IF changelog_match.matched THEN changelog_match.changelog ELSE None

is_pr(msg) ==
    \/ SearchAt({i \in SearchFrom(msg) : MERGE_PR_RE(msg, i).matched}) # 0
    \/ SearchAt({i \in SearchFrom(msg) : SQUASH_PR_RE(msg, i).matched}) # 0

is_release_merge(msg) ==
    SearchAt({i \in SearchFrom(msg) : MERGE_RELEASE_PR_RE(msg, i).matched}) # 0

PullRequest(number, title) == [number |-> number, title |-> title]

\* Python's None where a PullRequest is expected
NoPullRequest == [number |-> None, title |-> None]

\* extract_pr raises when neither template matches
Raises == [raised |-> TRUE]

\* extract_pr that tries the squash template first
extract_pr_squash_first(msg) ==
    LET merge_match == MERGE_PR_RE(msg, MatchAt)
        squash_match == SQUASH_PR_RE(msg, MatchAt)
    IN  IF squash_match.matched
        THEN [raised |-> FALSE,
              pr |-> PullRequest(squash_match.number, squash_match.title)]
        ELSE IF merge_match.matched
        THEN [raised |-> FALSE,
              pr |-> PullRequest(merge_match.number, merge_match.title)]
        ELSE Raises

extract_pr(msg) ==
    LET merge_match == MERGE_PR_RE(msg, MatchAt)
        squash_match == SQUASH_PR_RE(msg, MatchAt)
    IN  IF merge_match.matched
        THEN [raised |-> FALSE,
              pr |-> PullRequest(merge_match.number, merge_match.title)]
        ELSE IF squash_match.matched
        THEN [raised |-> FALSE,
              pr |-> PullRequest(squash_match.number, squash_match.title)]
        ELSE Raises

(***************************************************************************)
(* Classifier harness: the classifier applied to bounded commit messages   *)
(***************************************************************************)
\* the most pieces a commit message of the harness is made of
MaxPieces == 4

\* "Merge pull request #5 from b"
PieceMerge == MergeLit \o <<"5">> \o FromLit \o <<"b">>

\* the text a commit message of the harness is put together from
Pieces ==
    { PieceMerge,
      MergeLit,
      ReleaseLit \o <<"r">>,
      <<NL, NL>>,
      <<NL>>,
      <<"T">>,
      SquashOpenLit \o <<"6", ")">>,
      SquashOpenLit,
      <<"7">> }

RECURSIVE Flatten(_)
Flatten(ps) == IF ps = <<>> THEN <<>> ELSE Head(ps) \o Flatten(Tail(ps))

Messages ==
    { Flatten(ps) : ps \in UNION { [1..n -> Pieces] : n \in 0..MaxPieces } }

InitClassify ==
    /\ message \in Messages
    /\ outcome = [applied |-> FALSE]
    /\ pc = "classifier"
    /\ previous_tag = None /\ current_tag = None /\ branch = None
    /\ ignore_release_merge = FALSE /\ markdown = FALSE
    /\ tag_url = None /\ tag_requests = 0
    /\ previous_commit = None /\ current_commit = None
    /\ commits_between = <<>> /\ walked = 0 /\ lookups = <<>>
    /\ prs = <<>> /\ processed_pr_numbers = {} /\ extended_prs = <<>>
    /\ result = <<>> /\ lines = <<>> /\ error = "" /\ error_args = <<>> /\ calls = <<>>

Classify ==
    /\ pc = "classifier"
    /\ ~outcome.applied
    /\ outcome' = [applied          |-> TRUE,
                   is_pr            |-> is_pr(message),
                   is_release_merge |-> is_release_merge(message),
                   extract_pr       |-> extract_pr(message)]
    /\ UNCHANGED <<pc, previous_tag, current_tag, branch, ignore_release_merge,
                   markdown, tag_url, tag_requests, previous_commit,
                   current_commit, commits_between, walked, lookups, prs,
                   processed_pr_numbers, extended_prs, result, lines, error, error_args,
                   calls, message>>

NextClassify == Classify

SpecClassify == InitClassify /\ [][NextClassify]_vars

(***************************************************************************)
(* Changelog harness: extract_changelog applied to bounded PR bodies       *)
(***************************************************************************)
\* the most pieces a PR body of the harness is made of
MaxBodyPieces == 4

\* the text a PR body of the harness is put together from
BodyPieces == { ChangelogLit, <<" ">>, <<NL>>, <<"\t">>, <<"\f">>, <<"x">> }

\* the bodies given to extract_changelog: None, and every str of the pieces
PrBodies ==
    {None} \cup
    { Flatten(ps) : ps \in UNION { [1..n -> BodyPieces] : n \in 0..MaxBodyPieces } }

InitChangelog ==
    /\ message \in PrBodies
    /\ outcome = [applied |-> FALSE]
    /\ pc = "extract_changelog"
    /\ previous_tag = None /\ current_tag = None /\ branch = None
    /\ ignore_release_merge = FALSE /\ markdown = FALSE
    /\ tag_url = None /\ tag_requests = 0
    /\ previous_commit = None /\ current_commit = None
    /\ commits_between = <<>> /\ walked = 0 /\ lookups = <<>>
    /\ prs = <<>> /\ processed_pr_numbers = {} /\ extended_prs = <<>>
    /\ result = <<>> /\ lines = <<>> /\ error = "" /\ error_args = <<>> /\ calls = <<>>

ExtractChangelog ==
    /\ pc = "extract_changelog"
    /\ ~outcome.applied
    /\ outcome' = [applied   |-> TRUE,
                   changelog |-> extract_changelog(message)]
    /\ UNCHANGED <<pc, previous_tag, current_tag, branch, ignore_release_merge,
                   markdown, tag_url, tag_requests, previous_commit,
                   current_commit, commits_between, walked, lookups, prs,
                   processed_pr_numbers, extended_prs, result, lines, error, error_args,
                   calls, message>>

NextChangelog == ExtractChangelog

SpecChangelog == InitChangelog /\ [][NextChangelog]_vars

(***************************************************************************)
(* The severity formatter (lines 40-55 and 325-359)                        *)
(***************************************************************************)
LABEL_LEVELS ==
    [label \in {"patch", "hotfix", "fix", "minor", "feature", "breaking", "major"} |->
        CASE label \in {"patch", "hotfix", "fix"} -> 3
          [] label \in {"minor", "feature"}       -> 2
          [] label \in {"breaking", "major"}      -> 1]

CHANGELOG_LEVEL_MESSAGE ==
    <<<<"M", "A", "J", "O", "R", " ", "R", "E", "L", "E", "A", "S", "E">>,
      <<"M", "I", "N", "O", "R", " ", "R", "E", "L", "E", "A", "S", "E">>,
      <<"P", "A", "T", "C", "H", " ", "R", "E", "L", "E", "A", "S", "E">>>>

PullRequestDetails(body, labels) == [body |-> body, labels |-> labels]

ExtendedPullRequest(pr, details) == [pr |-> pr, details |-> details]

\* github_config.base_url, owner and repo of the run
BaseUrl == <<"h">>

Owner == <<"o">>

Repo == <<"r">>

\* LabelLevel with a label the table does not know counted as PATCH
LabelLevelUnknownIsPatch(label) ==
    IF label \in DOMAIN LABEL_LEVELS THEN LABEL_LEVELS[label] ELSE 3

\* LABEL_LEVELS.get(label) or 2
LabelLevel(label) ==
    IF label \in DOMAIN LABEL_LEVELS THEN LABEL_LEVELS[label] ELSE 2

MinOf(a, b) == IF a <= b THEN a ELSE b

\* for label in labels: change_level = min(change_level, ...)
RECURSIVE LabelsLevel(_, _)
LabelsLevel(change_level, labels) ==
    IF labels = <<>> THEN change_level
    ELSE LabelsLevel(MinOf(change_level, LabelLevel(Head(labels))), Tail(labels))

\* extended_pr.details.labels or []
LabelsOrEmpty(labels) == IF labels = None THEN <<>> ELSE labels

\* EntryLevel without the default for an entry that has no labels
EntryLevelNoDefault(change_level, extended_pr) ==
    LabelsLevel(change_level, LabelsOrEmpty(extended_pr.details.labels))

\* one iteration of the loop of format_changes, as far as change_level goes
EntryLevel(change_level, extended_pr) ==
    LET labels == LabelsOrEmpty(extended_pr.details.labels)
        defaulted == IF Len(labels) = 0 THEN MinOf(change_level, 2)
                     ELSE change_level
    IN  LabelsLevel(defaulted, labels)

RECURSIVE ChangeLevel(_, _)
ChangeLevel(change_level, entries) ==
    IF entries = <<>> THEN change_level
    ELSE ChangeLevel(EntryLevel(change_level, Head(entries)), Tail(entries))

\* the number as the line shows it: "#5", or "[#5](h/o/r/pull/5)"
NumberText(pr, md) ==
    LET number == <<"#">> \o pr.number
        link == BaseUrl \o <<"/">> \o Owner \o <<"/">> \o Repo
                \o <<"/", "p", "u", "l", "l", "/">> \o pr.number
    IN  IF md THEN <<"[">> \o number \o <<"]", "(">> \o link \o <<")">>
        ELSE number

\* EntryLine that ignores the CHANGELOG: override
EntryLineTitleOnly(extended_pr, md) ==
    <<"-", " ">> \o extended_pr.pr.title \o <<" ">> \o NumberText(extended_pr.pr, md)

\* one iteration of the loop of format_changes, as far as lines goes
EntryLine(extended_pr, md) ==
    LET pr_changelog_description == extract_changelog(extended_pr.details.body)
        description == IF pr_changelog_description # None
                       THEN pr_changelog_description
                       ELSE extended_pr.pr.title
    IN  <<"-", " ">> \o description \o <<" ">> \o NumberText(extended_pr.pr, md)

format_changes(entries, md) ==
    <<CHANGELOG_LEVEL_MESSAGE[ChangeLevel(3, entries)]>>
    \o [i \in 1..Len(entries) |-> EntryLine(entries[i], md)]

(***************************************************************************)
(* Formatter harness: format_changes applied to bounded entry lists        *)
(***************************************************************************)
\* the most entries format_changes is given by the harness
MaxEntries == 2

\* the labels of the harness: the keys of LABEL_LEVELS, a key in another
\* case, and a label the table does not know
Labels == DOMAIN LABEL_LEVELS \cup {"Major", "docs"}

LabelLists ==
    {None, <<>>}
    \cup { <<l>> : l \in Labels }
    \cup { <<a, b>> : a, b \in {"fix", "feature", "breaking", "docs"} }

\* "x\nCHANGELOG: c"
BodyWithChangelog == <<"x", NL>> \o ChangelogLit \o <<" ", "c">>

\* "CHANGELOG:\fx"
BodyFormFeed == ChangelogLit \o <<"\f", "x">>

Bodies == {None, <<"x">>, BodyWithChangelog, ChangelogLit, BodyFormFeed}

FormatEntries ==
    { ExtendedPullRequest(PullRequest(<<"5">>, <<"A">>), PullRequestDetails(None, ls)) :
        ls \in LabelLists }
    \cup
    { ExtendedPullRequest(PullRequest(n, <<"B">>), PullRequestDetails(b, ls)) :
        n \in {<<"6">>, <<"1", "0">>}, b \in Bodies, ls \in {<<>>, <<"fix">>} }

InitFormat ==
    /\ result \in UNION { [1..n -> FormatEntries] : n \in 0..MaxEntries }
    /\ pc = "format_changes"
    /\ message = <<>> /\ outcome = [applied |-> FALSE]
    /\ previous_tag = None /\ current_tag = None /\ branch = None
    /\ ignore_release_merge = FALSE /\ markdown = FALSE
    /\ tag_url = None /\ tag_requests = 0
    /\ previous_commit = None /\ current_commit = None
    /\ commits_between = <<>> /\ walked = 0 /\ lookups = <<>>
    /\ prs = <<>> /\ processed_pr_numbers = {} /\ extended_prs = <<>>
    /\ lines = <<>> /\ error = "" /\ error_args = <<>> /\ calls = <<>>

\* generate_changelog, line 388: lines = format_changes(..., prs, markdown).
\* The markdown argument is read nowhere before this call, so it is drawn here.
FormatChanges ==
    /\ pc = "format_changes"
    /\ \E md \in BOOLEAN :
          /\ markdown' = md
          /\ lines' = format_changes(result, md)
    /\ pc' = "done"
    /\ UNCHANGED <<previous_tag, current_tag, branch, ignore_release_merge, tag_url,
                   tag_requests, previous_commit, current_commit,
                   commits_between, walked,
                   lookups, prs, processed_pr_numbers, extended_prs, result,
                   error, error_args, calls, message, outcome>>

NextFormat == FormatChanges

SpecFormat == InitFormat /\ [][NextFormat]_vars

(***************************************************************************)
(* Claims about the severity formatter, checked under SpecFormat           *)
(***************************************************************************)
MajorReleaseText == <<"M", "A", "J", "O", "R", " ", "R", "E", "L", "E", "A", "S", "E">>

MinorReleaseText == <<"M", "I", "N", "O", "R", " ", "R", "E", "L", "E", "A", "S", "E">>

PatchReleaseText == <<"P", "A", "T", "C", "H", " ", "R", "E", "L", "E", "A", "S", "E">>

Formatted == pc = "done" /\ error = ""

HasNoLabels(entry) == entry.details.labels \in {None, <<>>}

\* the table of the claim: case-sensitive, anything else counts as 2
ClaimedLabelLevel(label) ==
    CASE label \in {"patch", "hotfix", "fix"} -> 3
      [] label \in {"minor", "feature"}       -> 2
      [] label \in {"breaking", "major"}      -> 1
      [] OTHER                                -> 2

ClaimedEntryLevels(entry) ==
    IF HasNoLabels(entry) THEN {2}
    ELSE { ClaimedLabelLevel(entry.details.labels[i]) :
             i \in 1..Len(entry.details.labels) }

ClaimedLevel(entries) ==
    Min({3} \cup UNION { ClaimedEntryLevels(entries[i]) : i \in 1..Len(entries) })

ClaimedHeader(level) ==
    CASE level = 1 -> MajorReleaseText
      [] level = 2 -> MinorReleaseText
      [] level = 3 -> PatchReleaseText

HasLabel(entry, label) ==
    /\ ~HasNoLabels(entry)
    /\ \E i \in 1..Len(entry.details.labels) : entry.details.labels[i] = label

\* C7: the header names the level min(3, min over the entries of (2 for an
\* entry without labels, else the least table value of its labels, a label
\* outside the table counting as 2)); one 'breaking' or 'major' label on any
\* entry makes the header MAJOR RELEASE whatever the rest.
C7_HeaderIsMinimumLevel ==
    Formatted =>
        /\ lines[1] = ClaimedHeader(ClaimedLevel(result))
        /\ (\E i \in 1..Len(result) :
               HasLabel(result[i], "breaking") \/ HasLabel(result[i], "major"))
           => lines[1] = MajorReleaseText

\* a PATCH entry followed by an entry labelled fix and breaking: MAJOR RELEASE
C7_Witness ==
    /\ Formatted
    /\ Len(result) = 2
    /\ result[1].details.labels = <<"patch">>
    /\ result[2].details.labels = <<"fix", "breaking">>
    /\ lines[1] = MajorReleaseText

\* C8: when some entry has no labels (an empty or absent list) the header is
\* never PATCH RELEASE, whatever the labels of the other entries.
C8_NoLabelsNeverPatch ==
    (Formatted /\ \E i \in 1..Len(result) : HasNoLabels(result[i]))
        => lines[1] \in {MajorReleaseText, MinorReleaseText}

\* a PATCH entry and an entry whose label list is empty: MINOR RELEASE
C8_Witness ==
    /\ Formatted
    /\ Len(result) = 2
    /\ result[1].details.labels = <<"fix">>
    /\ result[2].details.labels = <<>>
    /\ lines[1] = MinorReleaseText

\* the description of the claim: the override when the body has one
ClaimedDescription(entry) ==
    IF extract_changelog(entry.details.body) # None
    THEN extract_changelog(entry.details.body)
    ELSE entry.pr.title

\* "[#N](h/o/r/pull/N)"
ClaimedLink(number) ==
    <<"[", "#">> \o number \o <<"]", "(">> \o BaseUrl \o <<"/">> \o Owner
    \o <<"/">> \o Repo \o <<"/", "p", "u", "l", "l", "/">> \o number \o <<")">>

\* C9 as stated: len(entries)+1 lines, the header first, then for each entry
\* in order '- {description} #{number}'.
C9_AsStated ==
    Formatted =>
        /\ Len(lines) = Len(result) + 1
        /\ lines[1] \in {MajorReleaseText, MinorReleaseText, PatchReleaseText}
        /\ \A i \in 1..Len(result) :
              lines[i + 1] = <<"-", " ">> \o ClaimedDescription(result[i])
                             \o <<" ", "#">> \o result[i].pr.number

\* C9 amended: len(entries)+1 lines, the header first, then for each entry in
\* order '- {description} #{number}' when markdown is off and
\* '- {description} [#{number}]({base_url}/{owner}/{repo}/pull/{number})'
\* when markdown is on.
C9_LinesPerEntry ==
    Formatted =>
        /\ Len(lines) = Len(result) + 1
        /\ lines[1] \in {MajorReleaseText, MinorReleaseText, PatchReleaseText}
        /\ \A i \in 1..Len(result) :
              lines[i + 1] = <<"-", " ">> \o ClaimedDescription(result[i]) \o <<" ">>
                             \o (IF markdown THEN ClaimedLink(result[i].pr.number)
                                 ELSE <<"#">> \o result[i].pr.number)

\* two entries, the first with an override and the second without, as text
C9_Witness ==
    /\ Formatted
    /\ ~markdown
    /\ Len(result) = 2
    /\ result[1].details.body = BodyWithChangelog
    /\ result[2].details.body = <<"x">>
    /\ lines[2] = <<"-", " ", "c", " ", "#">> \o result[1].pr.number
    /\ lines[3] = <<"-", " ", "B", " ", "#">> \o result[2].pr.number

(***************************************************************************)
(* The remote: what the platform may answer to each request                *)
(***************************************************************************)
\* the most requests one call of get_commit_for_tag is followed for
MaxTagRequests == 2

\* the most commits the compare response holds
MaxCommits == 2

\* the tags the caller names, and the tag the tag list answers first
TagPrevious == <<"v", "1">>

TagCurrent == <<"v", "2">>

TagLatest == <<"v", "0">>

\* DEFAULT_BRANCH, "main"
Branch == <<"m", "a", "i", "n">>

\* a branch the caller names instead
BranchOther == <<"d", "e", "v">>

\* ".../git/refs/tags/{tag}" (lines 78-89), from "git" on
RefUrl(tag) == <<"g", "i", "t", "/", "r", "e", "f", "s", "/", "t", "a", "g", "s", "/">> \o tag

DigitChars == <<"0", "1", "2", "3", "4", "5", "6", "7", "8", "9">>

\* str(n) of a natural number
RECURSIVE Str(_)
Str(n) == IF n < 10 THEN <<DigitChars[n + 1]>>
          ELSE Str(n \div 10) \o <<DigitChars[(n % 10) + 1]>>

\* the URL of the n-th tag object of a chain, as the response of type "tag"
\* before it names it.  A tag object never names itself or one before it.
TagObjectUrl(n) == <<"g", "i", "t", "/", "t", "a", "g", "s", "/", "t">> \o Str(n)

\* responses to the request of get_commit_for_tag that n requests of the
\* same call came before: status, and the type, sha and url of
\* tag_json["object"] (type "" when the response has no object)
TagResponses(n) ==
    { [status |-> 404, type |-> "", sha |-> None, url |-> None],
      [status |-> 200, type |-> "", sha |-> None, url |-> None],
      [status |-> 200, type |-> "commit", sha |-> <<"4">>, url |-> None],
      [status |-> 200, type |-> "tag", sha |-> <<"3">>, url |-> TagObjectUrl(n + 1)],
      [status |-> 200, type |-> "tree", sha |-> <<"2">>, url |-> None] }

\* responses to the request of get_last_commit: status and the shas listed
LastCommitResponses ==
    { [status |-> 404, shas |-> <<>>],
      [status |-> 200, shas |-> <<>>],
      [status |-> 200, shas |-> << <<"9">>, <<"8">> >>] }

\* responses to the request of get_last_tag: status and the names listed
LastTagResponses ==
    { [status |-> 404, names |-> <<>>],
      [status |-> 200, names |-> <<>>],
      [status |-> 200, names |-> <<TagLatest, TagPrevious>>],
      [status |-> 301, names |-> <<TagLatest, TagPrevious>>] }

Commit(sha, msg) == [sha |-> sha, message |-> msg]

\* "Merge pull request #5 from b\n\nT"
MsgMerge == PieceMerge \o <<NL, NL, "T">>

\* "Merge pull request #5 from b/release/r\n\nT"
MsgReleaseMerge == PieceMerge \o ReleaseLit \o <<"r", NL, NL, "T">>

\* "S (#6)"
MsgSquash == <<"S">> \o SquashOpenLit \o <<"6", ")">>

\* "U (#5)\n\nd"
MsgSquashSame == <<"U">> \o SquashOpenLit \o <<"5", ")", NL, NL, "d">>

\* "x"
MsgPlain == <<"x">>

CommitMessages == {MsgMerge, MsgReleaseMerge, MsgSquash, MsgSquashSame, MsgPlain}

\* the sha of the i-th commit of the compare response
ShaOf(i) == <<"c", DigitChars[i + 1]>>

\* the "commits" a compare response may hold
CommitLists ==
    UNION { { [i \in 1..n |-> Commit(ShaOf(i), ms[i])] : ms \in [1..n -> CommitMessages] } :
              n \in 0..MaxCommits }

\* responses to the request of get_commits_between: status, whether the
\* payload has "commits", and the commits
CompareResponses ==
    { [status |-> 404, has_commits |-> FALSE, commits |-> <<>>],
      [status |-> 200, has_commits |-> FALSE, commits |-> <<>>] }
    \cup { [status |-> 200, has_commits |-> TRUE, commits |-> cs] : cs \in CommitLists }

\* responses to the request of get_pr_for_commit: status and the pulls
PullsResponses ==
    { [status |-> 404, pulls |-> <<>>],
      [status |-> 200, pulls |-> <<>>],
      [status |-> 200, pulls |-> << [number |-> 5, title |-> <<"V">>] >>],
      [status |-> 200, pulls |-> << [number |-> 10, title |-> <<"W">>],
                                    [number |-> 5, title |-> <<"V">>] >>] }

\* responses to the request of get_pr_details for a number: status, body and
\* label names.  The platform holds one pull request per number.
DetailsResponses(number) ==
    { [status |-> 404, body |-> None, labels |-> <<>>],
      CASE number = <<"5">> ->
             [status |-> 200, body |-> BodyWithChangelog, labels |-> <<"fix">>]
        [] number = <<"6">> ->
             [status |-> 200, body |-> <<"x">>, labels |-> <<"patch", "hotfix">>]
        [] OTHER ->
             [status |-> 200, body |-> None, labels |-> <<>>] }

\* one requests.get, as the log of the run keeps it
Call(fn, arg, status) == [fn |-> fn, arg |-> arg, status |-> status]

(***************************************************************************)
(* The change resolver: fetch_changes (lines 260-322), one action per      *)
(* remote call or loop iteration, and generate_changelog (lines 362-391)   *)
(***************************************************************************)
Init ==
    /\ pc = "last_tag"
    /\ previous_tag \in {None, TagPrevious}
    /\ current_tag \in {None, TagCurrent}
    /\ branch \in {Branch, BranchOther}
    /\ ignore_release_merge \in BOOLEAN
    /\ markdown = FALSE
    /\ tag_url = None /\ tag_requests = 0
    /\ previous_commit = None /\ current_commit = None
    /\ commits_between = <<>> /\ walked = 0 /\ lookups = <<>>
    /\ prs = <<>> /\ processed_pr_numbers = {} /\ extended_prs = <<>>
    /\ result = <<>> /\ lines = <<>> /\ error = "" /\ error_args = <<>> /\ calls = <<>>
    /\ message = <<>> /\ outcome = [applied |-> FALSE]

\* the "message" of the payload of a refused request
RemoteMessage == <<"N", "o", "t", " ", "F", "o", "u", "n", "d">>

\* what an exception raised by the runtime or by requests, not by a raise
\* statement of the program, leaves in error_args
NoArgs == <<>>

\* an exception leaves fetch_changes and generate_changelog; args are the
\* values its raise statement formats into the message, in order
Raise(kind, args) == error' = kind /\ error_args' = args /\ pc' = "failed"

\* line 269: if previous_tag is None
PreviousTagAbsent(tag) == tag = None

\* line 129: tags_response.raise_for_status() raises HTTPError for a client
\* or server error status and returns for any other status
raise_for_status(status) == status >= 400 /\ status < 600

\* lines 269-270: previous_tag = get_last_tag(...) when it is None
\* (get_last_tag, lines 125-131: raise_for_status(), then tags_json[0]["name"])
ResolveLatestTag ==
    /\ pc = "last_tag"
    /\ IF ~PreviousTagAbsent(previous_tag)
       THEN /\ pc' = "previous_commit"
            /\ UNCHANGED <<previous_tag, error, error_args, calls>>
       ELSE \E resp \in LastTagResponses :
              /\ calls' = Append(calls, Call("get_last_tag", <<>>, resp.status))
              /\ IF raise_for_status(resp.status)
                 THEN Raise("HTTPError", NoArgs) /\ UNCHANGED previous_tag
                 ELSE IF resp.names = <<>>
                 THEN Raise("IndexError", NoArgs) /\ UNCHANGED previous_tag
                 ELSE /\ previous_tag' = resp.names[1]
                      /\ pc' = "previous_commit"
                      /\ UNCHANGED <<error, error_args>>
    /\ UNCHANGED <<current_tag, branch, ignore_release_merge, markdown, tag_url,
                   tag_requests, previous_commit, current_commit,
                   commits_between, walked, lookups, prs,
                   processed_pr_numbers, extended_prs, result, lines,
                   message, outcome>>

\* get_commit_for_tag (lines 76-105): one pass of its while loop.  tag_url is
\* None between two calls of the function; the first pass requests RefUrl.
\* A response that makes the loop go on is followed while the call has
\* requests left.
TagRequest(tag, resp) ==
    LET url == IF tag_url = None THEN RefUrl(tag) ELSE tag_url
    IN  /\ resp.status = 200 /\ resp.type \in {"tag", "tree"}
            => tag_requests + 1 < MaxTagRequests
        /\ calls' = Append(calls, Call("get_commit_for_tag", url, resp.status))
        /\ IF resp.status # 200
           THEN /\ Raise("GitHubError", <<tag, RemoteMessage>>)
                /\ UNCHANGED <<tag_url, tag_requests>>
           ELSE IF resp.type = ""
           THEN Raise("KeyError", NoArgs) /\ UNCHANGED <<tag_url, tag_requests>>
           ELSE IF resp.type = "commit"
           THEN /\ tag_url' = None
                /\ tag_requests' = 0
                /\ UNCHANGED <<error, error_args>>
           ELSE /\ tag_url' = IF resp.type = "tag" THEN resp.url ELSE url
                /\ tag_requests' = tag_requests + 1
                /\ UNCHANGED <<pc, error, error_args>>

\* lines 271-273: previous_commit = get_commit_for_tag(..., previous_tag)
ResolvePreviousCommit ==
    /\ pc = "previous_commit"
    /\ \E resp \in TagResponses(tag_requests) :
          /\ TagRequest(previous_tag, resp)
          /\ IF resp.status = 200 /\ resp.type = "commit"
             THEN previous_commit' = resp.sha /\ pc' = "current_commit"
             ELSE UNCHANGED previous_commit
    /\ UNCHANGED <<previous_tag, current_tag, branch, ignore_release_merge, markdown,
                   current_commit, commits_between, walked, lookups, prs,
                   processed_pr_numbers, extended_prs, result, lines,
                   message, outcome>>

\* CurrentTagGiven that never finds a tag, so that the branch head is used
CurrentTagGivenNever(tag) == FALSE

\* line 276: if current_tag is not None
CurrentTagGiven(tag) == tag # None

\* lines 276-279: current_commit = get_commit_for_tag(..., current_tag)
ResolveCurrentTag ==
    /\ pc = "current_commit"
    /\ CurrentTagGiven(current_tag)
    /\ \E resp \in TagResponses(tag_requests) :
          /\ TagRequest(current_tag, resp)
          /\ IF resp.status = 200 /\ resp.type = "commit"
             THEN current_commit' = resp.sha /\ pc' = "commits_between"
             ELSE UNCHANGED current_commit
    /\ UNCHANGED <<previous_tag, current_tag, branch, ignore_release_merge, markdown,
                   previous_commit, commits_between, walked, lookups, prs,
                   processed_pr_numbers, extended_prs, result, lines,
                   message, outcome>>

\* lines 280-281: current_commit = get_last_commit(..., branch)
\* (get_last_commit, lines 108-122)
ResolveBranchHead ==
    /\ pc = "current_commit"
    /\ ~CurrentTagGiven(current_tag)
    /\ \E resp \in LastCommitResponses :
          /\ calls' = Append(calls, Call("get_last_commit", branch, resp.status))
          /\ IF resp.status # 200
             THEN Raise("GitHubError", <<RemoteMessage>>) /\ UNCHANGED current_commit
             ELSE IF resp.shas = <<>>
             THEN Raise("IndexError", NoArgs) /\ UNCHANGED current_commit
             ELSE /\ current_commit' = resp.shas[1]
                  /\ pc' = "commits_between"
                  /\ UNCHANGED <<error, error_args>>
    /\ UNCHANGED <<previous_tag, current_tag, branch, ignore_release_merge, markdown,
                   tag_url, tag_requests, previous_commit, commits_between,
                   walked, lookups, prs, processed_pr_numbers, extended_prs,
                   result, lines, message, outcome>>

\* PcAfterWalk that fetches details as soon as a change-request is collected
PcAfterWalkEager(w, cs, ps) ==
    IF ps # <<>> THEN "details" ELSE IF w < Len(cs) THEN "walk" ELSE "check"

\* where fetch_changes goes on after w commits of cs, with ps collected
PcAfterWalk(w, cs, ps) ==
    IF w < Len(cs) THEN "walk" ELSE IF ps = <<>> THEN "check" ELSE "details"

\* lines 283-285: commits_between = get_commits_between(...)
\* (get_commits_between, lines 134-166)
GetCommitsBetween ==
    /\ pc = "commits_between"
    /\ \E resp \in CompareResponses :
          /\ calls' = Append(calls,
                 Call("get_commits_between",
                      previous_commit \o <<".", ".", ".">> \o current_commit,
                      resp.status))
          /\ IF resp.status # 200
             THEN /\ Raise("GitHubError",
                           <<previous_commit, current_commit, RemoteMessage>>)
                  /\ UNCHANGED commits_between
             ELSE IF ~resp.has_commits
             THEN /\ Raise("GitHubError", <<previous_commit, current_commit>>)
                  /\ UNCHANGED commits_between
             ELSE /\ commits_between' = resp.commits
                  /\ pc' = PcAfterWalk(0, resp.commits, <<>>)
                  /\ UNCHANGED <<error, error_args>>
    /\ UNCHANGED <<previous_tag, current_tag, branch, ignore_release_merge, markdown,
                   tag_url, tag_requests, previous_commit, current_commit,
                   walked, lookups, prs, processed_pr_numbers, extended_prs,
                   result, lines, message, outcome>>

\* get_pr_for_commit that takes an empty or refused answer for a pull request
get_pr_for_commit_never_none(resp) ==
    IF resp.status # 200 \/ resp.pulls = <<>> THEN PullRequest(<<"0">>, <<>>)
    ELSE PullRequest(Str(resp.pulls[1].number), resp.pulls[1].title)

\* get_pr_for_commit (lines 195-220), from the response on
get_pr_for_commit(resp) ==
    IF resp.status # 200 THEN NoPullRequest
    ELSE IF resp.pulls = <<>> THEN NoPullRequest
    ELSE PullRequest(Str(resp.pulls[1].number), resp.pulls[1].title)

\* SkipsReleaseMerge that skips nothing
SkipsNothing(ignore, msg) == FALSE

\* line 297: ignore_release_merge and is_release_merge(commit.message)
SkipsReleaseMerge(ignore, msg) == ignore /\ is_release_merge(msg)

\* IsNewPr without the look at the numbers seen
IsNewPrUnchecked(pr, seen) == pr # NoPullRequest

\* line 305: pr and pr.number not in processed_pr_numbers
IsNewPr(pr, seen) == pr # NoPullRequest /\ pr.number \notin seen

\* what lookups keeps for a commit that needed no lookup
NoResponse == [status |-> 0, pulls |-> <<>>]

\* lines 304-307, and the end of one iteration of the for loop
Collect(how, pr, resp) ==
    /\ prs' = IF IsNewPr(pr, processed_pr_numbers) THEN Append(prs, pr) ELSE prs
    /\ processed_pr_numbers' =
          IF IsNewPr(pr, processed_pr_numbers)
          THEN processed_pr_numbers \cup {pr.number}
          ELSE processed_pr_numbers
    /\ lookups' = Append(lookups, [how |-> how, pr |-> pr, response |-> resp])
    /\ walked' = walked + 1
    /\ pc' = PcAfterWalk(walked + 1, commits_between, prs')

\* SeenBySkip that records the number of the merge it skips
SeenBySkipRecords(msg) == {extract_pr(msg).pr.number}

\* line 298, continue: the numbers a skipped commit adds to
\* processed_pr_numbers, lines 305-307 not being reached
SeenBySkip(msg) == {}

\* lines 297-298: the end of an iteration that skips a release merge
Skip(msg) ==
    /\ prs' = prs
    /\ processed_pr_numbers' = processed_pr_numbers \cup SeenBySkip(msg)
    /\ lookups' = Append(lookups, [how |-> "skipped", pr |-> NoPullRequest,
                                   response |-> NoResponse])
    /\ walked' = walked + 1
    /\ pc' = PcAfterWalk(walked + 1, commits_between, prs)

\* lines 291-307, one iteration for a commit whose message is_pr accepts
WalkMessageCommit ==
    /\ pc = "walk"
    /\ LET commit == commits_between[walked + 1]
       IN  /\ is_pr(commit.message)
           /\ IF SkipsReleaseMerge(ignore_release_merge, commit.message)
              THEN Skip(commit.message) /\ UNCHANGED <<error, error_args>>
              ELSE IF extract_pr(commit.message).raised
              THEN /\ Raise("Exception", <<commit.message>>)
                   /\ UNCHANGED <<prs, processed_pr_numbers, lookups, walked>>
              ELSE /\ Collect("message", extract_pr(commit.message).pr, NoResponse)
                   /\ UNCHANGED <<error, error_args>>
    /\ UNCHANGED <<previous_tag, current_tag, branch, ignore_release_merge, markdown,
                   tag_url, tag_requests, previous_commit, current_commit,
                   commits_between, extended_prs, result, lines, calls,
                   message, outcome>>

\* lines 291-307, one iteration for a commit whose message is_pr rejects:
\* the lookup of get_pr_for_commit
WalkLookupCommit ==
    /\ pc = "walk"
    /\ LET commit == commits_between[walked + 1]
       IN  /\ ~is_pr(commit.message)
           /\ \E resp \in PullsResponses :
                 /\ calls' = Append(calls,
                        Call("get_pr_for_commit", commit.sha, resp.status))
                 /\ Collect("lookup", get_pr_for_commit(resp), resp)
    /\ UNCHANGED <<previous_tag, current_tag, branch, ignore_release_merge, markdown,
                   tag_url, tag_requests, previous_commit, current_commit,
                   commits_between, extended_prs, result, lines, error, error_args,
                   message, outcome>>

\* get_pr_details that leaves the labels of the response out
get_pr_details_no_labels(resp) == PullRequestDetails(resp.body, <<>>)

\* get_pr_details (lines 190-192), from a response of status 200 on
get_pr_details(resp) == PullRequestDetails(resp.body, resp.labels)

\* lines 309-314, one element of the list comprehension: get_pr_details
\* (lines 169-192).  On a status other than 200 line 186 subscripts the
\* response object, which requests.Response does not support: TypeError.
GetPrDetails ==
    /\ pc = "details"
    /\ LET pr == prs[Len(extended_prs) + 1]
       IN  \E resp \in DetailsResponses(pr.number) :
              /\ calls' = Append(calls,
                     Call("get_pr_details", pr.number, resp.status))
              /\ IF resp.status # 200
                 THEN Raise("TypeError", NoArgs) /\ UNCHANGED extended_prs
                 ELSE /\ extended_prs' =
                            Append(extended_prs,
                                   ExtendedPullRequest(pr, get_pr_details(resp)))
                      /\ pc' = IF Len(extended_prs') < Len(prs)
                               THEN "details" ELSE "check"
                      /\ UNCHANGED <<error, error_args>>
    /\ UNCHANGED <<previous_tag, current_tag, branch, ignore_release_merge, markdown,
                   tag_url, tag_requests, previous_commit, current_commit,
                   commits_between, walked, lookups, prs,
                   processed_pr_numbers, result, lines, message, outcome>>

\* NoPrsForCommits that lets an empty result through
NoPrsForCommitsNever(eps, cs) == FALSE

\* NoPrsForCommits that does not look at the commit list
NoPrsForCommitsOrNone(eps, cs) == Len(eps) = 0

\* line 316: len(extended_prs) == 0 and len(commits_between) > 0
NoPrsForCommits(eps, cs) == Len(eps) = 0 /\ Len(cs) > 0

\* Reverse that leaves the list as it is
ReverseNot(xs) == xs

\* list.reverse()
Reverse(xs) == [i \in 1..Len(xs) |-> xs[Len(xs) + 1 - i]]

\* lines 316-322: the consistency check, the reversal and the return.
\* The Exception of line 318 names the branch argument, whether or not the
\* branch head was asked for.  reverse() works in place: the list returned is
\* extended_prs itself.
CheckAndReturn ==
    /\ pc = "check"
    /\ IF NoPrsForCommits(extended_prs, commits_between)
       THEN Raise("Exception", <<branch>>) /\ UNCHANGED <<extended_prs, result>>
       ELSE /\ extended_prs' = Reverse(extended_prs)
            /\ result' = extended_prs'
            /\ pc' = "format_changes"
            /\ UNCHANGED <<error, error_args>>
    /\ UNCHANGED <<previous_tag, current_tag, branch, ignore_release_merge, markdown,
                   tag_url, tag_requests, previous_commit, current_commit,
                   commits_between, walked, lookups, prs,
                   processed_pr_numbers, lines, calls,
                   message, outcome>>

Next ==
    \/ ResolveLatestTag
    \/ ResolvePreviousCommit
    \/ ResolveCurrentTag
    \/ ResolveBranchHead
    \/ GetCommitsBetween
    \/ WalkMessageCommit
    \/ WalkLookupCommit
    \/ GetPrDetails
    \/ CheckAndReturn
    \/ FormatChanges

Spec == Init /\ [][Next]_vars

(***************************************************************************)
(* Claims about fetch_changes, checked under Spec                          *)
(***************************************************************************)
\* fetch_changes has returned
Returned == pc \in {"format_changes", "done"}

Numbers(entries) == { entries[i].number : i \in 1..Len(entries) }

Distinct(xs) == \A i, j \in 1..Len(xs) : xs[i] = xs[j] => i = j

\* the commits walked so far that resolved to a change-request no earlier
\* commit resolved to: the first occurrences, by position in the walk
FirstOccurrences ==
    { i \in 1..Len(lookups) :
        /\ lookups[i].pr # NoPullRequest
        /\ \A j \in 1..(i - 1) : lookups[j].pr.number # lookups[i].pr.number }

\* the k-th first occurrence, in walk order
NthFirst(k) ==
    CHOOSE i \in FirstOccurrences :
        Cardinality({ j \in FirstOccurrences : j <= i }) = k

\* the position in the walk of the first commit that resolved to a number
FirstCommitOf(number) ==
    Min({ i \in 1..Len(lookups) : lookups[i].pr.number = number })

\* C1: the returned list holds each change-request number at most once, and
\* during the walk the set of seen numbers is the set of numbers of the list
\* built so far.
C1_NumbersUnique ==
    /\ processed_pr_numbers = Numbers(prs)
    /\ Distinct([i \in 1..Len(prs) |-> prs[i].number])
    /\ Returned => Distinct([i \in 1..Len(result) |-> result[i].pr.number])

\* two rebase commits that both resolve to the same change-request: one entry
C1_Witness ==
    /\ Returned
    /\ Len(lookups) = 2
    /\ lookups[1].how = "lookup" /\ lookups[2].how = "lookup"
    /\ lookups[1].pr # NoPullRequest
    /\ lookups[1].pr.number = lookups[2].pr.number
    /\ Len(result) = 1
    /\ result[1].pr.number = lookups[1].pr.number

\* C2: the returned list is the reverse of the walk with only the first
\* occurrence of each number kept (number and title as resolved there); the
\* list is in walk order until the return reverses it, once, after the
\* details have been fetched.
C2_ReverseOfFirstOccurrences ==
    /\ Returned =>
          /\ Len(result) = Cardinality(FirstOccurrences)
          /\ \A k \in 1..Len(result) :
                result[Len(result) + 1 - k].pr = lookups[NthFirst(k)].pr
    /\ ~Returned =>
          /\ Len(prs) = Cardinality(FirstOccurrences)
          /\ \A k \in 1..Len(prs) : prs[k] = lookups[NthFirst(k)].pr
          /\ \A k \in 1..Len(extended_prs) : extended_prs[k].pr = prs[k]

\* a walk that resolves two different change-requests has returned them in
\* the opposite order, each with the number and title of its own commit
C2_Witness ==
    /\ Returned
    /\ Len(lookups) = 2
    /\ lookups[1].pr # NoPullRequest /\ lookups[2].pr # NoPullRequest
    /\ lookups[1].pr.number # lookups[2].pr.number
    /\ result = << ExtendedPullRequest(lookups[2].pr, result[1].details),
                   ExtendedPullRequest(lookups[1].pr, result[2].details) >>

\* C3 as stated: with the compare result oldest-to-newest, an entry whose
\* first contributing commit is older comes before an entry whose first
\* contributing commit is newer.
C3_OldestFirst ==
    Returned =>
        \A i, j \in 1..Len(result) :
            i < j => FirstCommitOf(result[i].pr.number)
                     < FirstCommitOf(result[j].pr.number)

\* C4: a non-empty commit list of which no change-request survives makes
\* fetch_changes raise instead of returning an empty list, with no details
\* fetch issued; the error is not raised when a change-request survives.
C4_NoPrsIsAnError ==
    /\ (Returned /\ Len(commits_between) > 0) => Len(result) > 0
    /\ (pc = "check" /\ prs = <<>> /\ Len(commits_between) > 0)
          => /\ ENABLED CheckAndReturn
             /\ \A i \in 1..Len(calls) : calls[i].fn # "get_pr_details"
    /\ (pc = "failed" /\ error = "Exception")
          => /\ prs = <<>>
             /\ Len(commits_between) > 0
             /\ walked = Len(commits_between)
             /\ \A i \in 1..Len(calls) : calls[i].fn # "get_pr_details"

\* a skipped release merge and a commit whose lookup finds nothing: the error
C4_Witness ==
    /\ pc = "failed" /\ error = "Exception"
    /\ Len(lookups) = 2
    /\ lookups[1].how = "skipped"
    /\ lookups[2].how = "lookup"

\* the message has the shape of the merge template, its digits ending at d
\* and its first line at e - 1
MergeShape(s, d, e) ==
    /\ StartsWith(s, MergeLit, 1)
    /\ d >= Len(MergeLit) + 1
    /\ \A i \in (Len(MergeLit) + 1)..d : s[i] \in Digits
    /\ StartsWith(s, FromLit, d + 1)
    /\ e >= d + 1 + Len(FromLit)
    /\ \A i \in (d + 1)..(e - 1) : s[i] # NL
    /\ StartsWith(s, <<NL, NL>>, e)

\* a merge commit whose source segment contains "/release/"
ReleaseMergeShape(s) ==
    /\ StartsWith(s, MergeLit, 1)
    /\ \E d \in 1..Len(s) :
          /\ StartsWith(s, FromLit, d + 1)
          /\ \E e \in d..Len(s) :
                /\ StartsWith(s, <<NL, NL>>, e)
                /\ MergeShape(s, d, e)
                /\ Contains(SubSeq(s, d + 1 + Len(FromLit), e - 1), ReleaseLit)

\* the commit messages that are release merges
ReleaseMerges == { m \in CommitMessages : ReleaseMergeShape(m) }

\* C5: with ignore_release_merge set, a merge commit from a source that
\* contains '/release/' is skipped: no entry comes from it, no lookup is
\* issued for it, and the walk goes on without an error.
C5_ReleaseMergeSkipped ==
    LET release == [i \in 1..walked |-> commits_between[i].message \in ReleaseMerges]
    IN  ignore_release_merge =>
            /\ \A i \in 1..walked :
                  release[i] =>
                      /\ lookups[i].how = "skipped"
                      /\ lookups[i].pr = NoPullRequest
                      /\ \A c \in 1..Len(calls) :
                            ~(calls[c].fn = "get_pr_for_commit"
                              /\ calls[c].arg = commits_between[i].sha)
            /\ \A k \in 1..Len(prs) :
                  \E i \in 1..walked : ~release[i] /\ lookups[i].pr = prs[k]
            /\ (walked > 0 /\ release[walked] /\ walked < Len(commits_between))
                  => pc = "walk" /\ error = ""

\* a release merge is skipped and the commit after it gives the only entry
C5_Witness ==
    /\ ignore_release_merge
    /\ walked = 2
    /\ commits_between[1].message = MsgReleaseMerge
    /\ lookups[1].how = "skipped"
    /\ lookups[2].how = "message"
    /\ prs = <<lookups[2].pr>>

\* the lookup found no change-request: a refusal or an empty list
LookupFoundNone(resp) == resp.status # 200 \/ resp.pulls = <<>>

\* C6: a lookup that is refused or finds nothing yields none: the commit
\* adds nothing, fetch_changes does not fail, and the walk goes on.
C6_LookupIsBestEffort ==
    [][ ( /\ pc = "walk"
          /\ walked' = walked + 1
          /\ lookups'[walked'].how = "lookup"
          /\ LookupFoundNone(lookups'[walked'].response) )
        => /\ lookups'[walked'].pr = NoPullRequest
           /\ prs' = prs
           /\ processed_pr_numbers' = processed_pr_numbers
           /\ error' = ""
           /\ pc' # "failed"
           /\ walked' < Len(commits_between) => pc' = "walk" ]_vars

\* a refused lookup, then a commit that is collected
C6_Witness ==
    /\ walked = 2
    /\ lookups[1].how = "lookup"
    /\ lookups[1].response.status = 404
    /\ lookups[2].how = "message"
    /\ prs = <<lookups[2].pr>>
    /\ error = ""

(***************************************************************************)
(* Claims about the commit classifier, checked under SpecClassify          *)
(***************************************************************************)
\* the line that starts at t: up to the next "\n" or the end
LineFrom(s, t) ==
    SubSeq(s, t, Min({ j \in t..(Len(s) + 1) : j = Len(s) + 1 \/ s[j] = NL }) - 1)

\* title, " (#", digits up to d, ")" : the squash template with the title
\* ending at p
SquashShape(s, p, d) ==
    /\ \A i \in 1..p : s[i] # NL
    /\ StartsWith(s, SquashOpenLit, p + 1)
    /\ d >= p + 4
    /\ d <= Len(s)
    /\ \A i \in (p + 4)..d : s[i] \in Digits
    /\ StartsWith(s, <<")">>, d + 1)

MatchesMerge(s) ==
    /\ StartsWith(s, MergeLit, 1)
    /\ \E d \in 1..Len(s) :
          /\ StartsWith(s, FromLit, d + 1)
          /\ \E e \in d..Len(s) : MergeShape(s, d, e)

MatchesSquash(s) ==
    \E p \in 0..Len(s) :
        /\ StartsWith(s, SquashOpenLit, p + 1)
        /\ \E d \in p..Len(s) : SquashShape(s, p, d)

\* C10: extract_pr applies the merge template first: number after
\* 'Merge pull request #', title the line after the blank line, even when the
\* squash template matches too; otherwise the squash template: number inside
\* '(#N)', title the text before ' (#N)', the rest discarded.
C10_MergeThenSquash ==
    outcome.applied =>
        /\ \A d \in 1..Len(message) :
              StartsWith(message, FromLit, d + 1) =>
                \A e \in d..Len(message) :
                  MergeShape(message, d, e) =>
                  outcome.extract_pr =
                      [raised |-> FALSE,
                       pr |-> PullRequest(SubSeq(message, Len(MergeLit) + 1, d),
                                          LineFrom(message, e + 2))]
        /\ (~MatchesMerge(message) /\ MatchesSquash(message)) =>
              /\ ~outcome.extract_pr.raised
              /\ \E p \in 0..Len(message) :
                  \E d \in p..Len(message) :
                    /\ SquashShape(message, p, d)
                    /\ outcome.extract_pr.pr =
                          PullRequest(SubSeq(message, p + 4, d),
                                      SubSeq(message, 1, p))

\* "Merge pull request #5 from b (#6)\n\n": both templates match, #5 is taken
C10_Witness ==
    /\ outcome.applied
    /\ MatchesMerge(message) /\ MatchesSquash(message)
    /\ outcome.extract_pr.pr.number = <<"5">>
\* C11: is_pr accepts a message exactly when extract_pr returns for it: a
\* message of neither template is rejected by is_pr and makes extract_pr
\* raise, and a message is_pr accepts never makes extract_pr raise.
C11_IsPrIffExtractPr ==
    outcome.applied =>
        /\ outcome.is_pr <=> ~outcome.extract_pr.raised
        /\ (~MatchesMerge(message) /\ ~MatchesSquash(message))
              => ~outcome.is_pr /\ outcome.extract_pr.raised
        /\ (MatchesMerge(message) \/ MatchesSquash(message))
              => outcome.is_pr /\ ~outcome.extract_pr.raised

\* "T\nT (#6)": the squash template on the second line only, so neither
\* function takes the message for a merge
C11_Witness ==
    /\ outcome.applied
    /\ message = <<"T", NL, "T">> \o SquashOpenLit \o <<"6", ")">>
    /\ ~outcome.is_pr
    /\ outcome.extract_pr.raised
(***************************************************************************)
(* Claims about extract_changelog, checked under SpecChangelog             *)
(***************************************************************************)
\* where the lines of s that start with "CHANGELOG:" begin
ChangelogLines(s) ==
    { q \in 1..(Len(s) + 1) :
        /\ q = 1 \/ s[q - 1] = NL
        /\ StartsWith(s, ChangelogLit, q) }

\* the whitespace that does not end a line
Blanks == Whitespace \ {NL}

\* what is left of the line that starts at q after "CHANGELOG:" and any
\* blanks of that line
SameLineRemainders(s, q) ==
    LET r == q + Len(ChangelogLit)
        stop == Min({ j \in r..(Len(s) + 1) : j = Len(s) + 1 \/ s[j] = NL })
    IN  { SubSeq(s, g, stop - 1) :
            g \in { h \in r..stop : \A i \in r..(h - 1) : s[i] \in Blanks } }

\* C12 as stated: for a body with a line that starts with 'CHANGELOG:',
\* extract_changelog returns the rest of that same line after the optional
\* whitespace, from the first such line; it returns none when the body is
\* none or has no such line.
C12_SameLineRemainder ==
    outcome.applied =>
        IF message = None \/ ChangelogLines(message) = {}
        THEN outcome.changelog = None
        ELSE outcome.changelog
                \in SameLineRemainders(message, Min(ChangelogLines(message)))
(***************************************************************************)
(* Claims about the remote calls of fetch_changes, checked under Spec      *)
(***************************************************************************)
\* the calls fetch_changes cannot do without: all but the fallback lookup
Required(call) == call.fn # "get_pr_for_commit"

\* a status outside 2xx
NonSuccess(status) == status < 200 \/ status > 299

\* C13 as stated: a required remote call answered with a status outside 2xx
\* ends the run at once: it is the last call issued (no later call, no
\* retry), an exception has left generate_changelog, and no line and no
\* entry list has been produced.
C13_FailedCallAborts ==
    \A i \in 1..Len(calls) :
        (Required(calls[i]) /\ NonSuccess(calls[i].status)) =>
            /\ i = Len(calls)
            /\ pc = "failed"
            /\ error # ""
            /\ result = <<>>
            /\ lines = <<>>
\* C14 as stated: get_last_tag and get_pr_details answer a refused request
\* with GitHubError, the exception get_commit_for_tag, get_last_commit and
\* get_commits_between raise on a status other than 200.
C14_RefusedRaisesGitHubError ==
    \A i \in 1..Len(calls) :
        (calls[i].fn \in {"get_last_tag", "get_pr_details"}
            /\ NonSuccess(calls[i].status))
            => error = "GitHubError"
\* the phase a remote call belongs to
Phase(call) ==
    CASE call.fn \in {"get_last_tag", "get_commit_for_tag", "get_last_commit"} -> 1
      [] call.fn = "get_commits_between" -> 2
      [] call.fn = "get_pr_for_commit"   -> 3
      [] call.fn = "get_pr_details"      -> 4

IsCompareCall(call) == call.fn = "get_commits_between"

IsLookupCall(call) == call.fn = "get_pr_for_commit"

IsDetailsCall(call) == call.fn = "get_pr_details"

IsLookedUp(walk) == walk.how = "lookup"

\* the commits walked so far, each with how the loop body resolved it
Walk == [i \in 1..walked |-> [how |-> lookups[i].how, sha |-> commits_between[i].sha]]

\* C15: the remote calls come in phases: endpoint resolution, then the one
\* compare call, then the fallback lookups in walk order, then the details
\* fetches; a details fetch is issued only once the whole commit list has
\* been walked and deduplicated.
C15_CallsInPhases ==
    /\ \A i \in 1..(Len(calls) - 1) : Phase(calls[i]) <= Phase(calls[i + 1])
    /\ Len(SelectSeq(calls, IsCompareCall)) <= 1
    /\ LET asked == SelectSeq(calls, IsLookupCall)
           looked == SelectSeq(Walk, IsLookedUp)
       IN  /\ Len(asked) = Len(looked)
           /\ \A k \in 1..Len(asked) : asked[k].arg = looked[k].sha
    /\ (\E i \in 1..Len(calls) : IsDetailsCall(calls[i])) =>
          /\ walked = Len(commits_between)
          /\ processed_pr_numbers = Numbers(prs)
          /\ pc \notin {"walk", "commits_between"}

\* a run through all four phases: latest tag, compare, a lookup that finds a
\* change-request after a commit resolved by its message, and two fetches
C15_Witness ==
    /\ pc = "done"
    /\ calls[1].fn = "get_last_tag"
    /\ walked = 2
    /\ lookups[1].how = "message"
    /\ lookups[2].how = "lookup"
    /\ Len(SelectSeq(calls, IsLookupCall)) = 1
    /\ Len(SelectSeq(calls, IsDetailsCall)) = 2
\* the details the platform holds for a number
DetailsHeld(number) ==
    { PullRequestDetails(resp.body, resp.labels) :
        resp \in { r \in DetailsResponses(number) : r.status = 200 } }

\* C16: the details fetches are one per change-request of the deduplicated
\* list, in its order, and none for any other number; every returned entry
\* pairs a change-request with the details fetched for its own number.
C16_OneFetchPerSurvivor ==
    LET fetched == SelectSeq(calls, IsDetailsCall)
    IN  /\ Len(fetched) <= Len(prs)
        /\ \A k \in 1..Len(fetched) : fetched[k].arg = prs[k].number
        /\ \A a, b \in 1..Len(fetched) : fetched[a].arg = fetched[b].arg => a = b
        /\ ~Returned =>
              \A k \in 1..Len(extended_prs) :
                  /\ extended_prs[k].pr = prs[k]
                  /\ extended_prs[k].details \in DetailsHeld(prs[k].number)
        /\ Returned =>
              /\ result = extended_prs
              /\ Len(fetched) = Len(prs)
              /\ Len(result) = Len(prs)
              /\ \A i \in 1..Len(result) :
                    /\ result[i].pr.number \in Numbers(prs)
                    /\ result[i].details \in DetailsHeld(result[i].pr.number)

\* a skipped release merge of #5 and a squash of #6: one fetch, for #6,
\* whose labels the entry carries
C16_Witness ==
    /\ Returned
    /\ ignore_release_merge
    /\ walked = 2
    /\ lookups[1].how = "skipped"
    /\ lookups[2].pr.number = <<"6">>
    /\ Len(SelectSeq(calls, IsDetailsCall)) = 1
    /\ result[1].details.labels = <<"patch", "hotfix">>
IsLastTagCall(call) == call.fn = "get_last_tag"

IsBranchHeadCall(call) == call.fn = "get_last_commit"

\* a request of get_commit_for_tag for the ref of a tag
IsRefCall(call, tag) == call.fn = "get_commit_for_tag" /\ call.arg = RefUrl(tag)

\* the 'to' commit has been resolved
ToResolved == current_commit # None

\* the part of C17 about one step: where fetch_changes starts, the latest-tag
\* lookup is issued exactly when previous_tag is absent; a given previous_tag
\* is left as it is.
C17_Step ==
    pc = "last_tag" =>
        /\ previous_tag = None
              <=> /\ Len(calls') = Len(calls) + 1
                  /\ IsLastTagCall(calls'[Len(calls')])
        /\ previous_tag # None => previous_tag' = previous_tag /\ calls' = calls
        /\ (previous_tag = None /\ pc' # "failed") => previous_tag' = TagLatest

\* the part of C17 about every state: the latest-tag lookup comes first if at
\* all and its result is the tag whose ref is requested next; the 'to' commit
\* is resolved by the ref of current_tag when it is given, with no branch-head
\* call whatever the branch, and by one branch-head call for the branch
\* argument otherwise, with no request for another tag.
C17_State ==
    /\ \A i \in 1..Len(calls) : IsLastTagCall(calls[i]) => i = 1
    /\ (Len(calls) >= 2 /\ IsLastTagCall(calls[1])) => IsRefCall(calls[2], TagLatest)
    /\ \A i \in 1..Len(calls) :
          calls[i].fn = "get_commit_for_tag" =>
              \/ IsRefCall(calls[i], previous_tag)
              \/ current_tag # None /\ IsRefCall(calls[i], current_tag)
              \/ \E n \in 1..Len(calls) : calls[i].arg = TagObjectUrl(n)
    /\ Len(SelectSeq(calls, IsBranchHeadCall)) <= 1
    /\ current_tag # None =>
          /\ \A i \in 1..Len(calls) : ~IsBranchHeadCall(calls[i])
          /\ ToResolved => \E i \in 1..Len(calls) : IsRefCall(calls[i], current_tag)
    /\ current_tag = None =>
          /\ \A i \in 1..Len(calls) : IsBranchHeadCall(calls[i]) => calls[i].arg = branch
          /\ ToResolved => \E i \in 1..Len(calls) : IsBranchHeadCall(calls[i])

\* the value of the branch argument is the argument of a remote call
BranchInCall == \E i \in 1..Len(calls) : calls[i].arg = branch

\* the value of the branch argument is formatted into the exception's message
BranchInError == \E k \in 1..Len(error_args) : error_args[k] = branch

\* the run has ended with the Exception of line 318: commits were compared
\* and none of them gave a change-request
NoPrsError ==
    /\ pc = "failed" /\ error = "Exception"
    /\ commits_between # <<>> /\ walked = Len(commits_between)
    /\ prs = <<>> /\ result = <<>> /\ lines = <<>>

\* the last clause of C17 as stated: with current_tag given the branch
\* argument has no effect, so its value reaches no remote call and no
\* exception.
C17_BranchWithoutEffect ==
    current_tag # None => ~BranchInCall /\ ~BranchInError

\* C17 as stated: the endpoints are resolved as C17_State and C17_Step say,
\* and the branch argument has no effect when current_tag is given.
C17_AsStated == []C17_State /\ [][C17_Step]_vars /\ []C17_BranchWithoutEffect

\* the last clause of C17 as amended: with current_tag given the branch
\* argument reaches no remote call, and a run that returns entries or renders
\* lines carries it nowhere; it is only named by the Exception of line 318.
C17_BranchOnlyInNoPrsError ==
    current_tag # None =>
        /\ ~BranchInCall
        /\ BranchInError => NoPrsError /\ error_args = <<branch>>
        /\ pc \in {"format_changes", "done"} => error = "" /\ error_args = <<>>

\* C17: the latest-tag lookup is called if and only if previous_tag is
\* absent, and its result is resolved as the 'from' tag; the 'to' commit
\* comes from current_tag when it is given and from the branch head
\* otherwise, so one of the two calls is made per run; when current_tag is
\* given the branch argument reaches no remote call and no returned entry or
\* rendered line, and is only named in the text of the Exception of line 318.
C17_EndpointResolution ==
    []C17_State /\ [][C17_Step]_vars /\ []C17_BranchOnlyInNoPrsError

\* previous_tag absent and current_tag given, with a branch other than the
\* default: the tag list is asked first, then the refs of the latest tag and
\* of current_tag, and the branch head never; the commits compared give no
\* change-request, and the Exception that ends the run names the branch
C17_Witness ==
    /\ NoPrsError
    /\ error_args = <<BranchOther>>
    /\ branch = BranchOther
    /\ current_tag = TagCurrent
    /\ Len(calls) >= 4
    /\ IsLastTagCall(calls[1])
    /\ IsRefCall(calls[2], TagLatest)
    /\ IsRefCall(calls[3], TagCurrent)
    /\ calls[4].fn = "get_commits_between"
    /\ \A i \in 1..Len(calls) : ~IsBranchHeadCall(calls[i])

IsTagCall(call) == call.fn = "get_commit_for_tag"

\* C18 as stated: with a remote that answers every request and a finite
\* chain of tag objects, get_commit_for_tag ends by returning a commit sha or
\* by GitHubError; it never goes on requesting the same URL, so no request of
\* its loop is for the URL the request before it was for.
C18_NeverSameUrlAgain ==
    \A i \in 1..(Len(calls) - 1) :
        (IsTagCall(calls[i]) /\ IsTagCall(calls[i + 1]))
            => calls[i].arg # calls[i + 1].arg
\* the compare call was answered with a commit list, and the list is empty
ComparedEmpty ==
    /\ \E i \in 1..Len(calls) : IsCompareCall(calls[i]) /\ calls[i].status = 200
    /\ ~(pc = "failed" /\ error = "GitHubError")
    /\ commits_between = <<>>

\* C19: when the compare result holds no commits, fetch_changes returns the
\* empty list without raising and without a lookup or a details fetch, and
\* the changelog is the one line 'PATCH RELEASE'.
C19_EmptyRangeIsPatchRelease ==
    ComparedEmpty =>
        /\ pc \in {"check", "format_changes", "done"}
        /\ error = ""
        /\ \A i \in 1..Len(calls) : ~IsLookupCall(calls[i]) /\ ~IsDetailsCall(calls[i])
        /\ IsCompareCall(calls[Len(calls)])
        /\ pc = "check" => ENABLED CheckAndReturn
        /\ Returned => result = <<>>
        /\ pc = "done" => lines = <<PatchReleaseText>>

\* the run over an empty commit range has ended with the header alone
C19_Witness ==
    /\ ComparedEmpty
    /\ pc = "done"
    /\ result = <<>>
    /\ lines = <<PatchReleaseText>>
\* the number a merge commit message names after 'Merge pull request #'
MergeNumberOf(s) ==
    LET a == Len(MergeLit) + 1
    IN  SubSeq(s, a, Max({ j \in a..Len(s) : \A i \in a..j : s[i] \in Digits }))

\* the commit at i of the walk resolved to a change-request of this number
ResolvedTo(i, number) ==
    /\ lookups[i].how # "skipped"
    /\ lookups[i].pr # NoPullRequest
    /\ lookups[i].pr.number = number

\* C20: a release merge skipped under ignore_release_merge leaves the set of
\* seen numbers alone: a number is seen only through a commit that was not
\* skipped, and a later commit that resolves to the number of a skipped
\* merge, by its message or by the lookup, still gives an entry for it.
C20_SkipLeavesNumberUnseen ==
    /\ \A n \in processed_pr_numbers : \E j \in 1..walked : ResolvedTo(j, n)
    /\ \A i \in 1..walked :
          lookups[i].how = "skipped" =>
              LET n == MergeNumberOf(commits_between[i].message)
              IN  \A j \in (i + 1)..walked :
                      ResolvedTo(j, n) =>
                          /\ n \in processed_pr_numbers
                          /\ \E k \in 1..Len(prs) :
                                /\ prs[k].number = n
                                /\ (\A h \in 1..(j - 1) : ~ResolvedTo(h, n))
                                      => prs[k] = lookups[j].pr

\* the release merge of #5 is skipped and the lookup for the next commit
\* finds #5: the changelog has the entry of #5, under the title of the lookup
C20_Witness ==
    /\ Returned
    /\ ignore_release_merge
    /\ walked = 2
    /\ lookups[1].how = "skipped"
    /\ MergeNumberOf(commits_between[1].message) = <<"5">>
    /\ lookups[2].how = "lookup"
    /\ Len(result) = 1
    /\ result[1].pr = PullRequest(<<"5">>, <<"V">>)

====
